---- MODULE Spec2Model ----
(***************************************************************************)
(* Silver-to-Gold stage of the point-of-sale pipeline                      *)
(* (src/pos-dlt/04_Silver-to-Gold ETL.py).                                 *)
(*                                                                         *)
(* Two declared tables are refreshed in dependency order on every trigger: *)
(* inventory_current_python (current inventory per store and item) and     *)
(* best_supplier (supplier recommendation for the rows in low stock).      *)
(* Relations are bags of records; the dataframe operators (join, filter,   *)
(* groupBy/agg, withColumn, select, orderBy) are modelled with the SQL     *)
(* semantics the engine gives them, NULL and three-valued logic included.  *)
(***************************************************************************)
EXTENDS Integers, Sequences, FiniteSets, Bags, TLC

VARIABLES
  inventory_change,           \* input table: change events
  store,                      \* input table: store dimension
  inventory_change_type,      \* input table: change type dimension
  latest_inventory_snapshot,  \* input table: one count per (store_id, item_id)
  suppliers,                  \* input table: supplier reference
  inventory_change_df,        \* the filtered change relation of the last refresh
  inventory_current_df,       \* table inventory_current_python (ordered rows)
  suppliers_df,               \* table best_supplier
  last_refreshed              \* which table the pipeline refreshed last

vars == <<inventory_change, store, inventory_change_type,
          latest_inventory_snapshot, suppliers, inventory_change_df,
          inventory_current_df, suppliers_df, last_refreshed>>

inputs == <<inventory_change, store, inventory_change_type,
            latest_inventory_snapshot, suppliers>>

----------------------------------------------------------------------------
(* Bounds of the model.                                                    *)

MaxChanges == 2      \* change events in inventory_change
MaxTime == 1         \* timestamps are 0..MaxTime
MaxQty == 71         \* counted quantities are 0..MaxQty
MaxSuppliers == 2    \* rows in suppliers

----------------------------------------------------------------------------
(* SQL values: NULL, three-valued logic, nullable aggregates.              *)

Null == "<NULL>"

\* a nullable number is <<>> (NULL) or <<n>>
NullNum == <<>>

SqlEq(a, b) ==
  IF a = Null \/ b = Null THEN "unknown"
  ELSE IF a = b THEN "true" ELSE "false"

SqlAnd(p, q) ==
  IF p = "false" \/ q = "false" THEN "false"
  ELSE IF p = "true" /\ q = "true" THEN "true"
  ELSE "unknown"

SqlNot(p) ==
  IF p = "true" THEN "false"
  ELSE IF p = "false" THEN "true"
  ELSE "unknown"

\* slip: LEAST for GREATEST
Least(a, o) == IF o = NullNum THEN a ELSE IF o[1] < a THEN o[1] ELSE a

\* f.coalesce(col, f.lit(d))
Coalesce(o, d) == IF o = NullNum THEN d ELSE o[1]

\* GREATEST(a, o): NULL arguments are skipped
Greatest(a, o) == IF o = NullNum THEN a ELSE IF o[1] > a THEN o[1] ELSE a

Max2(a, b) == IF a >= b THEN a ELSE b

----------------------------------------------------------------------------
(* Bags of rows.                                                           *)

RECURSIVE SumF(_, _)
SumF(f, S) ==
  IF S = {} THEN 0
  ELSE LET x == CHOOSE y \in S : TRUE IN f[x] + SumF(f, S \ {x})

RECURSIVE MaxOf(_)
MaxOf(S) ==
  LET x == CHOOSE y \in S : TRUE
  IN IF S = {x} THEN x ELSE Max2(x, MaxOf(S \ {x}))

\* join: of the pairs of rows that meet the join condition, row[p] for each
BagJoin(A, B, pairs, row) ==
  LET n == [p \in pairs |-> A[p[1]] * B[p[2]]]
  IN [r \in {row[p] : p \in pairs} |-> SumF(n, {p \in pairs : row[p] = r})]

\* filter: the rows of A that are in keep
BagFilter(A, keep) == [r \in BagToSet(A) \cap keep |-> A[r]]

\* select / withColumn: row[x] for each row x of A
BagSelect(A, row) ==
  LET n == [x \in BagToSet(A) |-> A[x]]
  IN [r \in {row[x] : x \in BagToSet(A)} |->
        SumF(n, {x \in BagToSet(A) : row[x] = r})]

\* left outer join: a row of A without a match survives with a NULL right side
BagLeftOuterJoin(A, B, matched) ==
  LET lonely == {a \in BagToSet(A) : \A b \in BagToSet(B) : <<a, b>> \notin matched}
  IN [r \in {[a |-> p[1], b |-> <<p[2]>>] : p \in matched}
            \cup {[a |-> x, b |-> <<>>] : x \in lonely} |->
        IF r.b = <<>> THEN A[r.a] ELSE A[r.a] * B[r.b[1]]]

RECURSIVE SeqToBag(_)
SeqToBag(s) ==
  IF s = <<>> THEN EmptyBag ELSE SeqToBag(Tail(s)) (+) SetToBag({Head(s)})

----------------------------------------------------------------------------
(* inventory_current_python                                                *)

\* slip: NULL compared as an ordinary value, so the condition is never unknown
BopisExprTwoValued(r) ==
  IF r.name = "online" /\ r.change_type = "bopis" THEN "false" ELSE "true"

\* NOT(y.name='online' AND z.change_type='bopis')
BopisExpr(r) ==
  SqlNot(SqlAnd(SqlEq(r.name, "online"), SqlEq(r.change_type, "bopis")))

\* the filtered change relation
InventoryChangeDf(x, y, z) ==
  LET on_store == {p \in BagToSet(x) \X BagToSet(y) :
                     p[1].store_id = p[2].store_id}
      xy == BagJoin(x, y, on_store,
              [p \in on_store |->
                 [store_id |-> p[1].store_id, item_id |-> p[1].item_id,
                  change_type_id |-> p[1].change_type_id,
                  date_time |-> p[1].date_time,
                  quantity |-> p[1].quantity, name |-> p[2].name]])
      on_type == {p \in BagToSet(xy) \X BagToSet(z) :
                    p[1].change_type_id = p[2].change_type_id}
      xyz == BagJoin(xy, z, on_type,
               [p \in on_type |->
                  [store_id |-> p[1].store_id, item_id |-> p[1].item_id,
                   change_type_id |-> p[1].change_type_id,
                   date_time |-> p[1].date_time,
                   quantity |-> p[1].quantity, name |-> p[1].name,
                   change_type |-> p[2].change_type]])
      kept == BagFilter(xyz, {r \in BagToSet(xyz) : BopisExpr(r) = "true"})
  IN BagSelect(kept,
       [r \in BagToSet(kept) |->
          [store_id |-> r.store_id, item_id |-> r.item_id,
           date_time |-> r.date_time, quantity |-> r.quantity]])

\* slip: a change dated exactly at the snapshot is left out
SnapshotJoinOnStrictlyAfter(a, b) ==
  /\ a.store_id = b.store_id
  /\ a.item_id = b.item_id
  /\ a.date_time < b.date_time

\* a.store_id=b.store_id AND a.item_id=b.item_id AND a.date_time<=b.date_time
SnapshotJoinOn(a, b) ==
  /\ a.store_id = b.store_id
  /\ a.item_id = b.item_id
  /\ a.date_time <= b.date_time

\* slip: how='inner', a snapshot row without a change is lost
SnapshotInnerJoin(a, b) ==
  LET matched == {p \in BagToSet(a) \X BagToSet(b) : SnapshotJoinOn(p[1], p[2])}
  IN BagJoin(a, b, matched, [p \in matched |-> [a |-> p[1], b |-> <<p[2]>>]])

\* .join(inventory_change_df.alias('b'), on=..., how='leftouter')
SnapshotLeftOuterJoin(a, b) ==
  BagLeftOuterJoin(a, b,
    {p \in BagToSet(a) \X BagToSet(b) : SnapshotJoinOn(p[1], p[2])})

\* groupBy('a.store_id','a.item_id').agg(first, sum, first, max)
GroupAgg(J) ==
  LET rows == BagToSet(J)
      keys == {<<r.a.store_id, r.a.item_id>> : r \in rows}
      grp(k) == {r \in rows : r.a.store_id = k[1] /\ r.a.item_id = k[2]}
      hit(k) == {r \in grp(k) : r.b # <<>>}
      \* first(): the snapshot holds one row per key, so the group has one value
      first_quantity(k) == CHOOSE q \in {r.a.quantity : r \in grp(k)} : TRUE
      first_datetime(k) == CHOOSE t \in {r.a.date_time : r \in grp(k)} : TRUE
      sum_quantity(k) ==
        IF hit(k) = {} THEN NullNum
        ELSE <<SumF([r \in hit(k) |-> J[r] * r.b[1].quantity], hit(k))>>
      max_datetime(k) ==
        IF hit(k) = {} THEN NullNum
        ELSE <<MaxOf({r.b[1].date_time : r \in hit(k)})>>
  IN {[store_id |-> k[1], item_id |-> k[2],
       snapshot_quantity |-> first_quantity(k),
       change_quantity |-> sum_quantity(k),
       snapshot_datetime |-> first_datetime(k),
       change_datetime |-> max_datetime(k)] : k \in keys}

\* slip: the change is subtracted from the snapshot quantity
CurrentQuantityMinusChange(g) ==
  LET change_quantity == Coalesce(g.change_quantity, 0)
  IN [store_id |-> g.store_id, item_id |-> g.item_id,
      snapshot_quantity |-> g.snapshot_quantity,
      change_quantity |-> change_quantity,
      current_quantity |-> g.snapshot_quantity - change_quantity,
      date_time |-> Greatest(g.snapshot_datetime, g.change_datetime)]

\* the three withColumn steps after the aggregation, and the drop
CurrentQuantity(g) ==
  LET change_quantity == Coalesce(g.change_quantity, 0)
  IN [store_id |-> g.store_id, item_id |-> g.item_id,
      snapshot_quantity |-> g.snapshot_quantity,
      change_quantity |-> change_quantity,
      current_quantity |-> g.snapshot_quantity + change_quantity,
      date_time |-> Greatest(g.snapshot_datetime, g.change_datetime)]

\* rand() is a draw from [0, 1), modelled in hundredths
RandLowCut == 90
RandMediumCut == 50
RandVals == {0, RandMediumCut, RandMediumCut + 1, RandLowCut, RandLowCut + 1, 99}

InventoryType(r1, r2) ==
  IF r1 > RandLowCut THEN "low quantity item"
  ELSE IF r2 > RandMediumCut THEN "medium quantity item"
  ELSE "high quantity item"

DrawOutcomes == {InventoryType(r1, r2) : r1 \in RandVals, r2 \in RandVals}

\* slip: the medium tier counts 20 as "medium"
StockStatusMediumUpTo20(inventory_type, q) ==
  IF inventory_type = "low quantity item"
  THEN IF q < 3 THEN "low"
       ELSE IF q <= 5 THEN "medium quantity item" ELSE "high"
  ELSE IF inventory_type = "medium quantity item"
  THEN IF q < 10 THEN "low"
       ELSE IF q <= 20 THEN "medium" ELSE "high"
  ELSE IF q < 50 THEN "low"
       ELSE IF q < 70 THEN "medium" ELSE "high"

\* slip: the high tier counts 50 as "low"
StockStatusLowUpTo50(inventory_type, q) ==
  IF inventory_type = "low quantity item"
  THEN IF q < 3 THEN "low"
       ELSE IF q <= 5 THEN "medium quantity item" ELSE "high"
  ELSE IF inventory_type = "medium quantity item"
  THEN IF q < 10 THEN "low"
       ELSE IF q < 20 THEN "medium" ELSE "high"
  ELSE IF q <= 50 THEN "low"
       ELSE IF q < 70 THEN "medium" ELSE "high"

StockStatus(inventory_type, q) ==
  IF inventory_type = "low quantity item"
  THEN IF q < 3 THEN "low"
       ELSE IF q <= 5 THEN "medium quantity item" ELSE "high"
  ELSE IF inventory_type = "medium quantity item"
  THEN IF q < 10 THEN "low"
       ELSE IF q < 20 THEN "medium" ELSE "high"
  ELSE IF q < 50 THEN "low"
       ELSE IF q < 70 THEN "medium" ELSE "high"

Classified(c, inventory_type) ==
  [store_id |-> c.store_id, item_id |-> c.item_id,
   snapshot_quantity |-> c.snapshot_quantity,
   change_quantity |-> c.change_quantity,
   current_quantity |-> c.current_quantity,
   date_time |-> c.date_time,
   inventory_type |-> inventory_type,
   stock_status |-> StockStatus(inventory_type, c.current_quantity)]

\* string order of the three inventory_type labels
TypeOrd(t) ==
  IF t = "high quantity item" THEN 0
  ELSE IF t = "low quantity item" THEN 1 ELSE 2

\* orderBy('current_quantity', "inventory_type"): ascending, ties in any order
OrderByLeq(r, s) ==
  \/ r.current_quantity < s.current_quantity
  \/ /\ r.current_quantity = s.current_quantity
     /\ TypeOrd(r.inventory_type) <= TypeOrd(s.inventory_type)

RECURSIVE Orderings(_)
Orderings(S) ==
  IF S = {} THEN {<<>>}
  ELSE UNION {{<<x>> \o t : t \in Orderings(S \ {x})} :
                x \in {y \in S : \A w \in S : OrderByLeq(y, w)}}

inventory_current_python ==
  /\ last_refreshed \in {"none", "best_supplier"}
  /\ LET b == InventoryChangeDf(inventory_change, store, inventory_change_type)
         joined == SnapshotLeftOuterJoin(latest_inventory_snapshot, b)
         rows == {CurrentQuantity(g) : g \in GroupAgg(joined)}
     IN /\ inventory_change_df' = b
        /\ \E draw \in [rows -> DrawOutcomes] :
             inventory_current_df' \in
               Orderings({Classified(c, draw[c]) : c \in rows})
  /\ last_refreshed' = "inventory_current_python"
  /\ UNCHANGED <<inputs, suppliers_df>>

----------------------------------------------------------------------------
(* best_supplier                                                           *)

Greatest3(s1, s2, s3) == Max2(Max2(s1, s2), s3)

\* slip: supplier2 is tested before supplier1
TopSupplierSecondFirst(r) ==
  IF Greatest3(r.supplier1, r.supplier2, r.supplier3) = r.supplier2
  THEN "supplier2"
  ELSE IF Greatest3(r.supplier1, r.supplier2, r.supplier3) = r.supplier1
  THEN "supplier1"
  ELSE "supplier3"

TopSupplier(r) ==
  IF Greatest3(r.supplier1, r.supplier2, r.supplier3) = r.supplier1
  THEN "supplier1"
  ELSE IF Greatest3(r.supplier1, r.supplier2, r.supplier3) = r.supplier2
  THEN "supplier2"
  ELSE "supplier3"

\* slip: the filter keeps every row that is not "high"
NotHighStockJoin(a, b) ==
  LET on_item == {p \in BagToSet(a) \X BagToSet(b) : p[1].item_id = p[2].item_id}
      joined == BagJoin(a, b, on_item,
                  [p \in on_item |-> [inv |-> p[1], sup |-> p[2]]])
  IN BagFilter(joined, {r \in BagToSet(joined) : r.inv.stock_status # "high"})

\* join on item_id, then the filter on stock_status
LowStockJoin(a, b) ==
  LET on_item == {p \in BagToSet(a) \X BagToSet(b) : p[1].item_id = p[2].item_id}
      joined == BagJoin(a, b, on_item,
                  [p \in on_item |-> [inv |-> p[1], sup |-> p[2]]])
  IN BagFilter(joined, {r \in BagToSet(joined) : r.inv.stock_status = "low"})

SuppliersDf(a, b) ==
  LET low == LowStockJoin(a, b)
  IN BagSelect(low,
       [r \in BagToSet(low) |->
          [name |-> r.sup.name,
           inventory_type |-> r.inv.inventory_type,
           current_quantity |-> r.inv.current_quantity,
           top_supplier |-> TopSupplier(r.sup),
           date_time |-> r.inv.date_time]])

best_supplier ==
  /\ last_refreshed = "inventory_current_python"
  /\ suppliers_df' = SuppliersDf(SeqToBag(inventory_current_df), suppliers)
  /\ last_refreshed' = "best_supplier"
  /\ UNCHANGED <<inputs, inventory_change_df, inventory_current_df>>

Next == inventory_current_python \/ best_supplier

----------------------------------------------------------------------------
(* Input relations.                                                        *)

Times == 0..MaxTime

AddRow(B, r) ==
  IF r \in DOMAIN B THEN [B EXCEPT ![r] = @ + 1]
  ELSE [x \in DOMAIN B \cup {r} |-> IF x = r THEN 1 ELSE B[x]]

\* every bag of at most n rows drawn from U
RECURSIVE BagsUpTo(_, _)
BagsUpTo(U, n) ==
  IF n = 0 THEN {EmptyBag}
  ELSE LET smaller == BagsUpTo(U, n - 1)
       IN smaller \cup {AddRow(B, r) : B \in smaller, r \in U}

ChangeEvents(S, I, C, T, Q) ==
  [store_id : S, item_id : I, change_type_id : C, date_time : T, quantity : Q]

StoreRow(k, v) == [store_id |-> k, name |-> v]
TypeRow(k, v) == [change_type_id |-> k, change_type |-> v]
SnapshotRow(k, v) ==
  [store_id |-> k[1], item_id |-> k[2], quantity |-> v[1], date_time |-> v[2]]

\* the tables with at most one row per key of K, its value taken from V
Absent == "<absent>"
Keyed(K, V) == {{<<k, f[k]>> : k \in {j \in K : f[j] # Absent}} :
                  f \in [K -> V \cup {Absent}]}
StoreTables(K, V) == {SetToBag({StoreRow(e[1], e[2]) : e \in t}) : t \in Keyed(K, V)}
TypeTables(K, V) == {SetToBag({TypeRow(e[1], e[2]) : e \in t}) : t \in Keyed(K, V)}
SnapshotTables(K, V) ==
  {SetToBag({SnapshotRow(e[1], e[2]) : e \in t}) : t \in Keyed(K, V)}

InitFrom(changes, stores, types, snapshots, supplierTables) ==
  /\ inventory_change \in changes
  /\ store \in stores
  /\ inventory_change_type \in types
  /\ latest_inventory_snapshot \in snapshots
  /\ suppliers \in supplierTables
  /\ inventory_change_df = EmptyBag
  /\ inventory_current_df = <<>>
  /\ suppliers_df = EmptyBag
  /\ last_refreshed = "none"

\* usual reference data: store 1 is the online store, change type 1 is bopis
RefStore == SetToBag({StoreRow(1, "online"), StoreRow(2, "downtown")})
RefType == SetToBag({TypeRow(1, "bopis"), TypeRow(2, "sale")})
SupplierRows(I, N, S) ==
  [item_id : I, name : N, supplier1 : S, supplier2 : S, supplier3 : S]
RefSupplier == SetToBag(SupplierRows({1}, {"acme"}, {5}))
Deltas == {-2, 1}

\* Aggregation: bopis and sale events of the online store, sales of a second
\* store and of a second item, around the snapshots of two keys.
AggEvents ==
  ChangeEvents({1}, {1}, {1, 2}, Times, Deltas)
    \cup ChangeEvents({2}, {1}, {2}, Times, Deltas)
    \cup ChangeEvents({1}, {2}, {2}, Times, Deltas)
AggSnapshots ==
  {SetToBag(A \cup B) :
     A \in {{}} \cup {{SnapshotRow(<<1, 1>>, <<10, t>>)} : t \in Times},
     B \in {{}, {SnapshotRow(<<2, 1>>, <<7, 0>>)}}}
Init ==
  InitFrom(BagsUpTo(AggEvents, MaxChanges), {RefStore}, {RefType},
           AggSnapshots, {RefSupplier})
Spec == Init /\ [][Next]_vars

\* Filter: the dimension rows of store 1 and change type 1 vary (a name, NULL,
\* or no row at all); every event is at the snapshot time of its store.
FilterSnapshot ==
  SetToBag({SnapshotRow(<<1, 1>>, <<10, 0>>), SnapshotRow(<<2, 1>>, <<7, 0>>)})
InitFilter ==
  InitFrom(BagsUpTo(ChangeEvents({1, 2}, {1}, {1, 2}, {0}, Deltas), MaxChanges),
           {B (+) SetToBag({StoreRow(2, "downtown")}) :
              B \in StoreTables({1}, {"online", "downtown", Null})},
           {B (+) SetToBag({TypeRow(2, "sale")}) :
              B \in TypeTables({1}, {"bopis", "sale", Null})},
           {FilterSnapshot}, {RefSupplier})
SpecFilter == InitFilter /\ [][Next]_vars

\* Status: one counted item with every quantity 0..MaxQty, at most one sale.
InitStatus ==
  InitFrom(BagsUpTo(ChangeEvents({1}, {1}, {2}, {0}, Deltas), 1),
           {RefStore}, {RefType},
           {SetToBag({SnapshotRow(<<1, 1>>, <<q, 0>>)}) : q \in 0..MaxQty},
           BagsUpTo(SupplierRows({1, 2}, {"acme"}, {5}), MaxSuppliers))
SpecStatus == InitStatus /\ [][Next]_vars

\* Supplier join: item 1 counted in two stores and item 2 in one, each always low (2),
\* low or not by the draw (9) or never low (60); suppliers of items 1, 2, 3.
InitSupplier ==
  InitFrom({EmptyBag}, {RefStore}, {RefType},
           SnapshotTables({<<1, 1>>, <<2, 1>>, <<1, 2>>}, {2, 9, 60} \X {0}),
           BagsUpTo(SupplierRows({1, 3}, {"acme", "zenith"}, {5})
                      \cup SupplierRows({2}, {"acme"}, {5}), MaxSuppliers))
SpecSupplier == InitSupplier /\ [][Next]_vars

\* Top supplier: one item in low stock, suppliers with every score triple.
InitTop ==
  InitFrom({EmptyBag}, {RefStore}, {RefType},
           {SetToBag({SnapshotRow(<<1, 1>>, <<2, 0>>)})},
           BagsUpTo(SupplierRows({1}, {"acme"}, {3, 5, 9}), MaxSuppliers))
SpecTop == InitTop /\ [][Next]_vars

----------------------------------------------------------------------------
(* Properties.                                                             *)

Refreshed == last_refreshed # "none"
InvRows == {inventory_current_df[i] : i \in DOMAIN inventory_current_df}
SnapshotRows == BagToSet(latest_inventory_snapshot)
RowsOf(s) ==
  {r \in InvRows : r.store_id = s.store_id /\ r.item_id = s.item_id}

\* the filtered change events counted for snapshot row s
Contributing(s) ==
  {e \in BagToSet(inventory_change_df) :
     /\ e.store_id = s.store_id
     /\ e.item_id = s.item_id
     /\ e.date_time >= s.date_time}
ContributedQuantity(s) ==
  SumF([e \in Contributing(s) |-> inventory_change_df[e] * e.quantity],
       Contributing(s))

\* C1: the change_quantity of the row of a snapshot key is the sum of the
\* quantities of the filtered change events of that store and item dated at
\* or after the snapshot, and 0 when there is none.
C1_ChangeQuantityIsSumSinceSnapshot ==
  Refreshed =>
    \A s \in SnapshotRows :
      /\ RowsOf(s) # {}
      /\ \A r \in RowsOf(s) :
           /\ r.change_quantity = ContributedQuantity(s)
           /\ Contributing(s) = {} => r.change_quantity = 0

\* snapshot 10, changes -2 and +1 (one of them dated exactly at the snapshot):
\* change_quantity -1, current_quantity 9
C1_Witness ==
  /\ Refreshed
  /\ \E s \in SnapshotRows : \E r \in RowsOf(s) :
       /\ s.quantity = 10
       /\ \E e \in Contributing(s) : e.date_time = s.date_time /\ e.quantity = -2
       /\ \E e \in Contributing(s) : e.date_time > s.date_time /\ e.quantity = 1
       /\ r.change_quantity = -1
       /\ r.current_quantity = 9

Project(e) ==
  [store_id |-> e.store_id, item_id |-> e.item_id,
   date_time |-> e.date_time, quantity |-> e.quantity]
NamesOf(e) == {y.name : y \in {w \in BagToSet(store) : w.store_id = e.store_id}}
TypesOf(e) ==
  {z.change_type : z \in {w \in BagToSet(inventory_change_type) :
                            w.change_type_id = e.change_type_id}}
\* how many of the events selected as p are in kept
CountOf(kept, p) ==
  LET es == {e \in BagToSet(inventory_change) : Project(e) = p /\ e \in kept}
  IN SumF([e \in es |-> inventory_change[e]], es)
ProjectedEvents ==
  {Project(e) : e \in BagToSet(inventory_change)}
    \cup BagToSet(inventory_change_df)

\* C2: the filtered change relation holds exactly the events with a store row
\* and a change type row that are not (store "online" and change type
\* "bopis"); every other such event is retained.
C2Kept(e) ==
  \E n \in NamesOf(e), c \in TypesOf(e) : ~(n = "online" /\ c = "bopis")
SnapshotKeys == {<<s.store_id, s.item_id>> : s \in SnapshotRows}

\* C3: the output has exactly one row for each (store_id, item_id) of the
\* snapshot, matched by change events or not, and no row for any other pair.
C3_OneRowPerSnapshotKey ==
  Refreshed =>
    /\ {<<r.store_id, r.item_id>> : r \in InvRows} = SnapshotKeys
    /\ Len(inventory_current_df) = Cardinality(SnapshotKeys)

\* two snapshot keys, one without any contributing event, and a filtered
\* event of a pair the snapshot does not hold
C3_Witness ==
  /\ Refreshed
  /\ Cardinality(SnapshotKeys) = 2
  /\ \E s \in SnapshotRows : Contributing(s) = {}
  /\ \E s \in SnapshotRows : Contributing(s) # {}
  /\ \E e \in BagToSet(inventory_change_df) :
       <<e.store_id, e.item_id>> \notin SnapshotKeys

\* C4: change_quantity is never null (0 when no change event matched) and
\* current_quantity = snapshot_quantity + change_quantity.
C4_CurrentQuantityIsSnapshotPlusChange ==
  Refreshed =>
    \A s \in SnapshotRows : \A r \in RowsOf(s) :
      /\ r.change_quantity \in Int
      /\ Contributing(s) = {} => r.change_quantity = 0
      /\ r.snapshot_quantity = s.quantity
      /\ r.current_quantity = r.snapshot_quantity + r.change_quantity

\* one row with a negative change_quantity, one with no matching event
C4_Witness ==
  /\ Refreshed
  /\ \E r \in InvRows :
       r.change_quantity < 0 /\ r.current_quantity < r.snapshot_quantity
  /\ \E s \in SnapshotRows : \E r \in RowsOf(s) :
       Contributing(s) = {} /\ r.change_quantity = 0

Latest(T) == CHOOSE t \in T : \A u \in T : u <= t

\* C5: date_time is the greater of the snapshot's date_time and the latest
\* date_time of the contributing change events; the snapshot's when there is
\* none; never earlier than the snapshot's.
C5_DateTimeIsLatest ==
  Refreshed =>
    \A s \in SnapshotRows : \A r \in RowsOf(s) :
      /\ r.date_time >= s.date_time
      /\ Contributing(s) = {} => r.date_time = s.date_time
      /\ Contributing(s) # {} =>
           LET latest == Latest({e.date_time : e \in Contributing(s)})
           IN r.date_time = IF latest > s.date_time THEN latest ELSE s.date_time

\* two contributing events at different times move date_time past the snapshot's
C5_Witness ==
  /\ Refreshed
  /\ \E s \in SnapshotRows : \E r \in RowsOf(s) :
       /\ Cardinality({e.date_time : e \in Contributing(s)}) = 2
       /\ r.date_time > s.date_time
  /\ \E s \in SnapshotRows : \E r \in RowsOf(s) :
       Contributing(s) = {} /\ r.date_time = s.date_time

StatusTable(t, q) ==
  CASE t = "low quantity item" ->
         (CASE q < 3 -> "low"
            [] 3 <= q /\ q <= 5 -> "medium quantity item"
            [] OTHER -> "high")
    [] t = "medium quantity item" ->
         (CASE q < 10 -> "low"
            [] 10 <= q /\ q < 20 -> "medium"
            [] OTHER -> "high")
    [] t = "high quantity item" ->
         (CASE q < 50 -> "low"
            [] 50 <= q /\ q < 70 -> "medium"
            [] OTHER -> "high")

\* C6: whatever the draw, stock_status is the threshold table applied to the
\* row's own inventory_type and current_quantity.
C6_StockStatusFollowsTable ==
  Refreshed =>
    \A r \in InvRows :
      /\ r.inventory_type \in
           {"low quantity item", "medium quantity item", "high quantity item"}
      /\ r.stock_status = StatusTable(r.inventory_type, r.current_quantity)

\* a medium quantity item with 19 in stock is "medium"
C6_Witness ==
  /\ Refreshed
  /\ \E r \in InvRows :
       /\ r.inventory_type = "medium quantity item"
       /\ r.current_quantity = 19
       /\ r.stock_status = "medium"

\* pairs of (inventory row in low stock, suppliers row of the same item)
LowPairs ==
  {p \in InvRows \X BagToSet(suppliers) :
     p[1].stock_status = "low" /\ p[1].item_id = p[2].item_id}
Carried(o) ==
  [name |-> o.name, inventory_type |-> o.inventory_type,
   current_quantity |-> o.current_quantity, date_time |-> o.date_time]
CarriedOf(p) ==
  [name |-> p[2].name, inventory_type |-> p[1].inventory_type,
   current_quantity |-> p[1].current_quantity, date_time |-> p[1].date_time]
RowsCarrying(c) ==
  LET os == {o \in BagToSet(suppliers_df) : Carried(o) = c}
  IN SumF([o \in os |-> suppliers_df[o]], os)
PairsCarrying(c) ==
  LET ps == {p \in LowPairs : CarriedOf(p) = c}
  IN SumF([p \in ps |-> suppliers[p[2]]], ps)

\* C7: best_supplier has exactly one row per pair of (inventory row with
\* stock_status "low", suppliers row with the same item_id), carrying the
\* inventory row's inventory_type, current_quantity and date_time, and no
\* other row.
C7_OneRowPerLowStockSupplierPair ==
  last_refreshed = "best_supplier" =>
    \A c \in {Carried(o) : o \in BagToSet(suppliers_df)}
               \cup {CarriedOf(p) : p \in LowPairs} :
      RowsCarrying(c) = PairsCarrying(c)

\* a recommendation exists, next to a row not in low stock that has a
\* supplier and a row in low stock that has none
C7_Witness ==
  /\ last_refreshed = "best_supplier"
  /\ suppliers_df # EmptyBag
  /\ \E a \in InvRows : \E s \in BagToSet(suppliers) :
       a.stock_status # "low" /\ a.item_id = s.item_id
  /\ \E a \in InvRows :
       /\ a.stock_status = "low"
       /\ \A s \in BagToSet(suppliers) : s.item_id # a.item_id

Score(s, i) ==
  IF i = 1 THEN s.supplier1 ELSE IF i = 2 THEN s.supplier2 ELSE s.supplier3
FirstMaxColumn(s) ==
  LET i == CHOOSE j \in 1..3 :
             /\ \A k \in 1..3 : Score(s, k) <= Score(s, j)
             /\ \A k \in 1..(j - 1) : Score(s, k) < Score(s, j)
  IN <<"supplier1", "supplier2", "supplier3">>[i]
RowsNaming(t) ==
  LET os == {o \in BagToSet(suppliers_df) : o.top_supplier = t}
  IN SumF([o \in os |-> suppliers_df[o]], os)
PairsNaming(t) ==
  LET ps == {p \in LowPairs : FirstMaxColumn(p[2]) = t}
  IN SumF([p \in ps |-> suppliers[p[2]]], ps)

\* C8: top_supplier names the column holding the maximum of supplier1,
\* supplier2, supplier3, the first such column when several hold it.
C8_TopSupplierIsFirstMaximum ==
  last_refreshed = "best_supplier" =>
    \A t \in {"supplier1", "supplier2", "supplier3"}
               \cup {o.top_supplier : o \in BagToSet(suppliers_df)} :
      RowsNaming(t) = PairsNaming(t)

\* supplier1=5, supplier2=9, supplier3=3 gives "supplier2"
C8_Witness ==
  /\ last_refreshed = "best_supplier"
  /\ \E s \in BagToSet(suppliers) :
       /\ BagToSet(suppliers) = {s}
       /\ s.supplier1 = 5 /\ s.supplier2 = 9 /\ s.supplier3 = 3
  /\ \E o \in BagToSet(suppliers_df) :
       BagToSet(suppliers_df) = {o} /\ o.top_supplier = "supplier2"

SuppliersOfItem(a) ==
  LET ss == {s \in BagToSet(suppliers) : s.item_id = a.item_id}
  IN SumF([s \in ss |-> suppliers[s]], ss)
RowsWithQuantity(q) ==
  LET os == {o \in BagToSet(suppliers_df) : o.current_quantity = q}
  IN SumF([o \in os |-> suppliers_df[o]], os)
\* C9: a row with current_quantity < 3 is "low" for every draw and is
\* recommended once per suppliers row of its item; a row with
\* current_quantity >= 50 is never "low" and never recommended; for every
\* current_quantity from 3 to 49 one draw gives "low" and another does not.
C9_DrawDecidesLowOnlyInsideBand ==
  /\ Refreshed =>
       \A a \in InvRows :
         /\ a.current_quantity < 3 => a.stock_status = "low"
         /\ a.current_quantity >= 50 => a.stock_status # "low"
  /\ last_refreshed = "best_supplier" =>
       \A a \in InvRows :
         /\ a.current_quantity < 3 =>
              RowsWithQuantity(a.current_quantity) = SuppliersOfItem(a)
         /\ a.current_quantity >= 50 =>
              RowsWithQuantity(a.current_quantity) = 0
  /\ \A q \in 3..49 :
       /\ \E t \in DrawOutcomes : StockStatus(t, q) = "low"
       /\ \E t \in DrawOutcomes : StockStatus(t, q) # "low"

\* a row of quantity 49 that the draw did not put in low stock, with suppliers
C9_Witness ==
  /\ last_refreshed = "best_supplier"
  /\ \E a \in InvRows :
       /\ a.current_quantity = 49
       /\ a.stock_status # "low"
       /\ SuppliersOfItem(a) = 2
       /\ suppliers_df = EmptyBag

\* whether the filter keeps an event of a store with name n and change type c
NullKept(n, c) ==
  /\ ~(n = "online" /\ c = "bopis")
  /\ ~(n = Null /\ c = "bopis")
  /\ ~(n = "online" /\ c = Null)
  /\ ~(n = Null /\ c = Null)
C10Kept(e) == \E n \in NamesOf(e), c \in TypesOf(e) : NullKept(n, c)
KeptQuantity(s) ==
  LET es == {e \in BagToSet(inventory_change) :
               /\ C10Kept(e)
               /\ e.store_id = s.store_id
               /\ e.item_id = s.item_id
               /\ e.date_time >= s.date_time}
  IN SumF([e \in es |-> inventory_change[e] * e.quantity], es)

\* C10: the filter keeps an event only when NOT(name='online' AND
\* change_type='bopis') is true: a NULL name with "bopis", or a NULL change
\* type with "online", is dropped and adds nothing to change_quantity; a NULL
\* name with another change type, or a NULL change type with another store
\* name, is retained.
C10_NullNameOrTypeFilteredAsUnknown ==
  Refreshed =>
    /\ \A p \in ProjectedEvents :
         CopiesIn(p, inventory_change_df)
           = CountOf({e \in BagToSet(inventory_change) : C10Kept(e)}, p)
    /\ \A s \in SnapshotRows : \A r \in RowsOf(s) :
         r.change_quantity = KeptQuantity(s)

\* a bopis event of a store whose name is NULL is dropped while a sale of the
\* same store is kept
C10_Witness ==
  /\ Refreshed
  /\ \E e \in BagToSet(inventory_change) :
       /\ NamesOf(e) = {Null} /\ TypesOf(e) = {"bopis"}
       /\ \E k \in BagToSet(inventory_change) :
            /\ k.store_id = e.store_id
            /\ TypesOf(k) = {"sale"}
            /\ inventory_change_df = SetToBag({Project(k)})
       /\ \E r \in InvRows :
            r.store_id = e.store_id /\ r.change_quantity # e.quantity

====
